---- MODULE Spec2Model ----
(***************************************************************************)
(* Read-after-write reconciliation of the LiteLLM Terraform provider:      *)
(* the credential and model resources' create / update / read / delete     *)
(* handlers and their retry-with-backoff read loops                        *)
(* (litellm/resource_credential_crud.go, litellm/resource_model_crud.go).  *)
(*                                                                         *)
(* One resource data object `d` of one kind is modelled.  The framework    *)
(* calls one handler at a time; the server's answers are nondeterministic. *)
(* Error messages are strings and are classified by substring search, as   *)
(* the code does.  Durations are in milliseconds.                          *)
(***************************************************************************)
EXTENDS Integers, Sequences, FiniteSets, TLC

VARIABLES
    kind,             \* "credential" or "model": the resource type of d
    id,               \* d.Id()
    credential_name,  \* d.Get("credential_name")
    secrets,          \* the secret fields of d (credential_values; the model's keys)
    req,              \* createOrUpdateModel's litellmParams, dropParams and loop position
    uuidCount,        \* number of identifiers uuid.New() has produced
    op,               \* the handler the framework is running
    pc,               \* position in that handler
    isUpdate,         \* createOrUpdateModel's parameter
    maxRetries,       \* the reconciler's parameter
    i,                \* the reconciler's loop counter
    delay,            \* the reconciler's current backoff delay (ms)
    origID,           \* retryCredentialRead's origID
    err,              \* the reconciler's err variable
    ret,              \* the handler's return value (meaningful at pc = "done")
    trace,            \* requests, reads, sleeps and SetId calls of this handler call
    logs              \* log.Printf calls of this handler call

vars == <<kind, id, credential_name, secrets, req, uuidCount, op, pc, isUpdate, maxRetries, i,
          delay, origID, err, ret, trace, logs>>

----------------------------------------------------------------------------
(* Bounds of the model *)

\* largest budget a direct call of a reconciler is given
MaxBudget == 6

\* number of identifiers uuid.New() may hand out in one behaviour
MaxUuid == 2

\* budgets given to a direct call of a reconciler (an int parameter)
Budgets == -1 .. MaxBudget

\* the largest budget of a classified attempt
MaxClassifyBudget == 2

\* values of the credential_name field
CredNames == {"cred-a", "cred-b"}

----------------------------------------------------------------------------
(* Program constants *)

CredentialInitialDelay == 1000
CredentialMaxDelay == 10000
CredentialBudget == 5
ModelInitialDelay == 500
ModelMaxDelay == 10000
ModelSettleDelay == 200
ModelBudget == 8
StatusNotFound == 404

----------------------------------------------------------------------------
(* Strings and errors *)

\* strings.Contains
Contains(s, sub) ==
    \E k \in 1 .. (Len(s) - Len(sub) + 1) : SubSeq(s, k, k + Len(sub) - 1) = sub

\* strings.HasPrefix
HasPrefix(s, p) == Len(s) >= Len(p) /\ SubSeq(s, 1, Len(p)) = p

\* a nil error
NoErr == [nil |-> TRUE, msg |-> ""]

\* fmt.Errorf(msg)
Errorf(m) == [nil |-> FALSE, msg |-> m]

\* fmt.Errorf(prefix + "%w", e)
Wrap(prefix, e) == Errorf(prefix \o e.msg)

\* uuid.New().String(): the n-th identifier generated
UuidOf(n) == "uuid-" \o ToString(n)

----------------------------------------------------------------------------
(* The transport and the response decoders (not part of these files) *)

Sentinel == IF kind = "credential" THEN "credential_not_found" ELSE "model_not_found"

TransportFailure(m) ==
    [transport |-> Errorf(m), status |-> 0, decode |-> NoErr, name |-> ""]

Http(status, decodeErr, name) ==
    [transport |-> NoErr, status |-> status, decode |-> decodeErr, name |-> name]

\* what the server may answer to one request
Responses ==
    {TransportFailure("connection refused")}
    \cup {Http(200, NoErr, n) : n \in CredNames}
    \cup {Http(404, Errorf("API request failed: 404"), ""),
          Http(400, Errorf(Sentinel), ""),
          Http(500, Errorf("API request failed: 500"), ""),
          Http(400, Errorf("API request failed: " \o Sentinel \o " in db"), ""),
          Http(400, Errorf("API request failed: Model id = m1 not found"), "")}

\* MakeRequest's error result
MakeRequest(r) == r.transport

\* handleCredentialAPIResponse's error result
handleCredentialAPIResponse(r) == r.decode

\* handleAPIResponse's error result
handleAPIResponse(r) == r.decode

----------------------------------------------------------------------------
(* Events *)

\* a read, a SetId, a sleep or a call of a reconciler: for a read, the identifier
\* it asks for, the identifier d holds when it returns, and the error it returns
Ev(type, ident, after, e, ms, ep) ==
    [type |-> type, id |-> ident, idAfter |-> after, err |-> e, ms |-> ms, ep |-> ep,
     status |-> 0]

\* a write: the identifier it sends, the identifier d held before it, its error,
\* and the status of the answer r (0: the transport failed)
WriteEv(ident, held, e, ep, r) ==
    [type |-> "write", id |-> ident, idAfter |-> held, err |-> e, ms |-> 0, ep |-> ep,
     status |-> r.status]

\* a read made by the framework on its own: the event of the read, with the
\* status of the answer r (0: the transport failed) and the decoder's error
ReadEv(ident, after, e, ep, r) ==
    [type |-> "read", id |-> ident, idAfter |-> after, err |-> e, ms |-> 0, ep |-> ep,
     status |-> r.status, answer |-> r.decode]

Log(level, what, n, total) ==
    [level |-> level, what |-> what, n |-> n, total |-> total]

----------------------------------------------------------------------------
(* The read functions: their error result and what they leave in d *)

resourceLiteLLMCredentialRead(r, curId, curName) ==
    IF ~MakeRequest(r).nil
    THEN [err |-> Wrap("failed to read credential: ", MakeRequest(r)),
          id |-> curId, credential_name |-> curName]
    ELSE IF r.status = StatusNotFound
    THEN [err |-> NoErr, id |-> "", credential_name |-> curName]
    ELSE IF ~handleCredentialAPIResponse(r).nil
    THEN IF handleCredentialAPIResponse(r).msg = "credential_not_found"
         THEN [err |-> NoErr, id |-> "", credential_name |-> curName]
         ELSE [err |-> Wrap("failed to read credential: ", handleCredentialAPIResponse(r)),
               id |-> curId, credential_name |-> curName]
    ELSE [err |-> NoErr, id |-> curId, credential_name |-> r.name]

\* mutant: every decode error is taken for the not-found signal
resourceLiteLLMModelReadClearsOnError(r, curId) ==
    IF ~MakeRequest(r).nil
    THEN [err |-> Wrap("failed to read model: ", MakeRequest(r)), id |-> curId]
    ELSE IF ~handleAPIResponse(r).nil
    THEN [err |-> NoErr, id |-> ""]
    ELSE [err |-> NoErr, id |-> curId]

resourceLiteLLMModelRead(r, curId) ==
    IF ~MakeRequest(r).nil
    THEN [err |-> Wrap("failed to read model: ", MakeRequest(r)), id |-> curId]
    ELSE IF ~handleAPIResponse(r).nil
    THEN IF handleAPIResponse(r).msg = "model_not_found"
         THEN [err |-> NoErr, id |-> ""]
         ELSE [err |-> Wrap("failed to read model: ", handleAPIResponse(r)), id |-> curId]
    ELSE [err |-> NoErr, id |-> curId]

\* the secret fields as the configuration gave them to d
LocalSecrets ==
    IF kind = "credential"
    THEN [credential_values |-> "local-values"]
    ELSE [model_api_key |-> "sk-local", aws_access_key_id |-> "AKIA-local",
          aws_secret_access_key |-> "local-secret"]

\* what a decoded answer carries in the places of the secret fields
ResponseSecrets(r) ==
    IF kind = "credential"
    THEN [credential_values |-> "remote-values"]
    ELSE [model_api_key |-> "sk-remote", aws_access_key_id |-> "",
          aws_secret_access_key |-> ""]

\* resourceLiteLLMCredentialRead: credential_values is never set
CredentialReadSecrets(r, cur) == cur

\* mutant: the secret fields are refreshed from the answer like the others
ModelReadSecretsFromResponse(r, cur) ==
    IF MakeRequest(r).nil /\ handleAPIResponse(r).nil
    THEN ResponseSecrets(r)
    ELSE cur

\* resourceLiteLLMModelRead: once the answer is decoded, each secret field is
\* set to the value d already holds
ModelReadSecrets(r, cur) ==
    IF MakeRequest(r).nil /\ handleAPIResponse(r).nil
    THEN [model_api_key |-> cur.model_api_key,
          aws_access_key_id |-> cur.aws_access_key_id,
          aws_secret_access_key |-> cur.aws_secret_access_key]
    ELSE cur

----------------------------------------------------------------------------
(* Values of a request's litellm_params and the conversions of Go's library  *)
(* that createOrUpdateModel applies to the strings of the additional         *)
(* parameters: strings.TrimSpace, strconv.Atoi, strconv.ParseFloat and       *)
(* json.Unmarshal.  Numbers are in decimal notation without exponent, JSON   *)
(* strings have no escapes, and the only white space is the space.           *)

\* a value of type interface{}: tag is "null", "bool", "int", "float", "string",
\* "list", "object" or "member" (a key of an object with its value); a float is
\* num * 10^exp with no trailing zero in num
Value(tag, str, num, exp, items) ==
    [tag |-> tag, str |-> str, num |-> num, exp |-> exp, items |-> items]

NullValue == Value("null", "", 0, 0, <<>>)
BoolValue(b) == Value("bool", IF b THEN "true" ELSE "false", 0, 0, <<>>)
IntValue(n) == Value("int", "", n, 0, <<>>)
StringValue(s) == Value("string", s, 0, 0, <<>>)
ListValue(items) == Value("list", "", 0, 0, items)
ObjectValue(members) == Value("object", "", 0, 0, members)
MemberValue(key, v) == Value("member", key, 0, 0, <<v>>)

RECURSIVE FloatValue(_, _)
FloatValue(n, e) ==
    IF n = 0 THEN Value("float", "", 0, 0, <<>>)
    ELSE IF n % 10 = 0 THEN FloatValue(n \div 10, e + 1)
    ELSE Value("float", "", n, e, <<>>)

Char(s, k) == SubSeq(s, k, k)

Digit == {"0", "1", "2", "3", "4", "5", "6", "7", "8", "9"}

DigitValue(c) ==
    CASE c = "0" -> 0 [] c = "1" -> 1 [] c = "2" -> 2 [] c = "3" -> 3 [] c = "4" -> 4
      [] c = "5" -> 5 [] c = "6" -> 6 [] c = "7" -> 7 [] c = "8" -> 8 [] c = "9" -> 9

IsDigits(s) == \A k \in 1 .. Len(s) : Char(s, k) \in Digit

RECURSIVE DigitsValue(_)
DigitsValue(s) ==
    IF Len(s) = 0 THEN 0
    ELSE 10 * DigitsValue(SubSeq(s, 1, Len(s) - 1)) + DigitValue(Char(s, Len(s)))

\* strings.TrimSpace
RECURSIVE TrimLeft(_)
TrimLeft(s) ==
    IF Len(s) > 0 /\ Char(s, 1) = " " THEN TrimLeft(SubSeq(s, 2, Len(s))) ELSE s

RECURSIVE TrimRight(_)
TrimRight(s) ==
    IF Len(s) > 0 /\ Char(s, Len(s)) = " " THEN TrimRight(SubSeq(s, 1, Len(s) - 1)) ELSE s

TrimSpace(s) == TrimRight(TrimLeft(s))

\* a string without its sign, and the sign
Unsigned(s) ==
    IF Len(s) > 0 /\ Char(s, 1) \in {"+", "-"} THEN SubSeq(s, 2, Len(s)) ELSE s

Sign(s) == IF Len(s) > 0 /\ Char(s, 1) = "-" THEN -1 ELSE 1

\* strconv.Atoi: an optional sign and one or more digits
Atoi(s) ==
    IF Len(Unsigned(s)) >= 1 /\ IsDigits(Unsigned(s))
    THEN [ok |-> TRUE, val |-> Sign(s) * DigitsValue(Unsigned(s))]
    ELSE [ok |-> FALSE, val |-> 0]

\* the position of the first "." of s, Len(s) + 1 when it has none
RECURSIVE DotAt(_, _)
DotAt(s, k) ==
    IF k > Len(s) THEN k ELSE IF Char(s, k) = "." THEN k ELSE DotAt(s, k + 1)

\* strconv.ParseFloat(s, 64): an optional sign, digits with at most one ".",
\* one digit at least
ParseFloat(s) ==
    LET u == Unsigned(s)
        d == DotAt(u, 1)
        whole == SubSeq(u, 1, d - 1)
        frac == SubSeq(u, d + 1, Len(u))
    IN IF IsDigits(whole) /\ IsDigits(frac) /\ Len(whole) + Len(frac) >= 1
       THEN [ok |-> TRUE,
             val |-> FloatValue(Sign(s) * DigitsValue(whole \o frac), 0 - Len(frac))]
       ELSE [ok |-> FALSE, val |-> NullValue]

\* the result of a parser: the value read and the position after it
Parsed(v, next) == [ok |-> TRUE, val |-> v, next |-> next]

NotParsed == [ok |-> FALSE, val |-> NullValue, next |-> 0]

RECURSIVE SkipSpace(_, _)
SkipSpace(s, k) ==
    IF k <= Len(s) /\ Char(s, k) = " " THEN SkipSpace(s, k + 1) ELSE k

StartsAt(s, k, w) == k + Len(w) - 1 <= Len(s) /\ SubSeq(s, k, k + Len(w) - 1) = w

\* the position after the characters of a number that start at k
RECURSIVE NumberEnd(_, _)
NumberEnd(s, k) ==
    IF k <= Len(s) /\ Char(s, k) \in Digit \cup {"-", "+", "."}
    THEN NumberEnd(s, k + 1)
    ELSE k

\* a JSON number: "-" at most, no leading zero, digits on both sides of a "."
JSONNumber(t) ==
    LET u == IF StartsAt(t, 1, "-") THEN SubSeq(t, 2, Len(t)) ELSE t
        d == DotAt(u, 1)
        whole == SubSeq(u, 1, d - 1)
        frac == SubSeq(u, d + 1, Len(u))
    IN IF /\ Len(whole) >= 1
          /\ IsDigits(whole)
          /\ (Len(whole) = 1 \/ Char(whole, 1) # "0")
          /\ (d > Len(u) \/ (Len(frac) >= 1 /\ IsDigits(frac)))
       THEN [ok |-> TRUE,
             val |-> FloatValue(Sign(t) * DigitsValue(whole \o frac), 0 - Len(frac))]
       ELSE [ok |-> FALSE, val |-> NullValue]

\* the position of the first quote of s at or after k, Len(s) + 1 when none
RECURSIVE QuoteAt(_, _)
QuoteAt(s, k) ==
    IF k > Len(s) THEN k ELSE IF Char(s, k) = "\"" THEN k ELSE QuoteAt(s, k + 1)

\* a JSON string that starts at the quote at k
ParseString(s, k) ==
    IF QuoteAt(s, k + 1) > Len(s)
    THEN NotParsed
    ELSE Parsed(StringValue(SubSeq(s, k + 1, QuoteAt(s, k + 1) - 1)), QuoteAt(s, k + 1) + 1)

RECURSIVE ParseValue(_, _)
RECURSIVE ParseElements(_, _, _)
RECURSIVE ParseMembers(_, _, _)

\* a JSON value that starts at or after k
ParseValue(s, k0) ==
    LET k == SkipSpace(s, k0)
    IN IF k > Len(s) THEN NotParsed
       ELSE IF Char(s, k) = "["
       THEN IF StartsAt(s, SkipSpace(s, k + 1), "]")
            THEN Parsed(ListValue(<<>>), SkipSpace(s, k + 1) + 1)
            ELSE ParseElements(s, k + 1, <<>>)
       ELSE IF Char(s, k) = "{"
       THEN IF StartsAt(s, SkipSpace(s, k + 1), "}")
            THEN Parsed(ObjectValue(<<>>), SkipSpace(s, k + 1) + 1)
            ELSE ParseMembers(s, k + 1, <<>>)
       ELSE IF Char(s, k) = "\"" THEN ParseString(s, k)
       ELSE IF StartsAt(s, k, "true") THEN Parsed(BoolValue(TRUE), k + 4)
       ELSE IF StartsAt(s, k, "false") THEN Parsed(BoolValue(FALSE), k + 5)
       ELSE IF StartsAt(s, k, "null") THEN Parsed(NullValue, k + 4)
       ELSE IF JSONNumber(SubSeq(s, k, NumberEnd(s, k) - 1)).ok
       THEN Parsed(JSONNumber(SubSeq(s, k, NumberEnd(s, k) - 1)).val, NumberEnd(s, k))
       ELSE NotParsed

\* the elements of an array from k on, after those in acc
ParseElements(s, k, acc) ==
    LET v == ParseValue(s, k)
        j == SkipSpace(s, v.next)
    IN IF ~v.ok THEN NotParsed
       ELSE IF StartsAt(s, j, ",") THEN ParseElements(s, j + 1, Append(acc, v.val))
       ELSE IF StartsAt(s, j, "]") THEN Parsed(ListValue(Append(acc, v.val)), j + 1)
       ELSE NotParsed

\* the members of an object from k on, after those in acc
ParseMembers(s, k, acc) ==
    LET q == SkipSpace(s, k)
        key == ParseString(s, q)
        c == SkipSpace(s, key.next)
        v == ParseValue(s, c + 1)
        j == SkipSpace(s, v.next)
    IN IF ~StartsAt(s, q, "\"") \/ ~key.ok \/ ~StartsAt(s, c, ":") \/ ~v.ok THEN NotParsed
       ELSE IF StartsAt(s, j, ",")
       THEN ParseMembers(s, j + 1, Append(acc, MemberValue(key.val.str, v.val)))
       ELSE IF StartsAt(s, j, "}")
       THEN Parsed(ObjectValue(Append(acc, MemberValue(key.val.str, v.val))), j + 1)
       ELSE NotParsed

\* json.Unmarshal([]byte(s), &parsedValue): one value and nothing after it
Unmarshal(s) ==
    IF ParseValue(s, 1).ok /\ SkipSpace(s, ParseValue(s, 1).next) > Len(s)
    THEN [ok |-> TRUE, val |-> ParseValue(s, 1).val]
    ELSE [ok |-> FALSE, val |-> NullValue]

----------------------------------------------------------------------------
(* createOrUpdateModel: the assembly of the request's litellm_params *)

\* the key of the additional parameters that names the parameters to drop
ReservedKey == "additional_drop_params"

\* map[key] = v and delete(map, key) on a map[string]interface{}
Put(f, k, v) == [x \in DOMAIN f \cup {k} |-> IF x = k THEN v ELSE f[x]]

Delete(f, k) == [x \in DOMAIN f \ {k} |-> f[x]]

\* the parameters built from the fields of d before the additional ones: the
\* five that are always set and, of the optional ones, those d has a value for
BaseParams ==
    LET always == [k \in {"custom_llm_provider", "model", "input_cost_per_token",
                          "output_cost_per_token", "merge_reasoning_content_in_choices"}
                   |-> CASE k = "custom_llm_provider" -> StringValue("openai")
                         [] k = "model" -> StringValue("openai" \o "/" \o "gpt-4o")
                         [] k = "merge_reasoning_content_in_choices" -> BoolValue(FALSE)
                         [] OTHER -> FloatValue(0, 0)]
        withKey == IF secrets.model_api_key # ""
                   THEN Put(always, "api_key", StringValue(secrets.model_api_key))
                   ELSE always
        withId == IF secrets.aws_access_key_id # ""
                  THEN Put(withKey, "aws_access_key_id", StringValue(secrets.aws_access_key_id))
                  ELSE withKey
    IN IF secrets.aws_secret_access_key # ""
       THEN Put(withId, "aws_secret_access_key", StringValue(secrets.aws_secret_access_key))
       ELSE withId

\* the test made before json.Unmarshal is tried
LooksLikeJSON(s) == HasPrefix(TrimSpace(s), "[") \/ HasPrefix(TrimSpace(s), "{")

\* mutant: the float conversion is tried before the integer one
ConvertStringFloatFirst(s) ==
    IF s = "true" THEN BoolValue(TRUE)
    ELSE IF s = "false" THEN BoolValue(FALSE)
    ELSE IF ParseFloat(s).ok THEN ParseFloat(s).val
    ELSE IF Atoi(s).ok THEN IntValue(Atoi(s).val)
    ELSE StringValue(s)

\* the conversions of a string that was not parsed as JSON
ConvertString(s) ==
    IF s = "true" THEN BoolValue(TRUE)
    ELSE IF s = "false" THEN BoolValue(FALSE)
    ELSE IF Atoi(s).ok THEN IntValue(Atoi(s).val)
    ELSE IF ParseFloat(s).ok THEN ParseFloat(s).val
    ELSE StringValue(s)

\* the strings among the items of a parsed list
RECURSIVE StringItems(_)
StringItems(items) ==
    IF items = <<>> THEN <<>>
    ELSE (IF Head(items).tag = "string" THEN <<Head(items).str>> ELSE <<>>)
         \o StringItems(Tail(items))

\* dropParams after the loop body has run on key and its string value
DropParamsAfter(drops, key, s) ==
    IF LooksLikeJSON(s) /\ Unmarshal(s).ok /\ key = ReservedKey
       /\ Unmarshal(s).val.tag = "list"
    THEN drops \o StringItems(Unmarshal(s).val.items)
    ELSE drops

\* litellmParams after the loop body has run on key and its string value
ParamsAfter(params, key, s) ==
    IF LooksLikeJSON(s) /\ Unmarshal(s).ok
    THEN IF key = ReservedKey THEN params ELSE Put(params, key, Unmarshal(s).val)
    ELSE Put(params, key, ConvertString(s))

\* litellmParams after the deletion of every key of drops
RECURSIVE DeleteAll(_, _)
DeleteAll(params, drops) ==
    IF drops = <<>> THEN params ELSE DeleteAll(Delete(params, Head(drops)), Tail(drops))

\* no request is being assembled
NoRequest == [litellmParams |-> <<>>, additional |-> <<>>, pending |-> {}, dropParams |-> <<>>]

----------------------------------------------------------------------------
(* The reconcilers' decisions *)

\* mutant: the "Model id =" pattern is missing
isRetryableModelErrorTwoPatterns(e) ==
    /\ ~e.nil
    /\ \/ Contains(e.msg, "not found")
       \/ Contains(e.msg, "model_not_found")

\* isRetryableModelError
isRetryableModelError(e) ==
    IF e.nil
    THEN FALSE
    ELSE Contains(e.msg, "not found")
         \/ Contains(e.msg, "Model id =")
         \/ Contains(e.msg, "model_not_found")

\* mutant: the test matches a broader pattern than the sentinel
isRetryableCredentialErrorBroad(e) == Contains(e.msg, "credential")

\* retryCredentialRead's test of the error message
isRetryableCredentialError(e) == Contains(e.msg, "credential_not_found")

\* mutant: the identifier test is inverted (!= for ==)
CredentialAttemptErrInverted(rd) ==
    IF rd.err.nil /\ rd.id # "" THEN Errorf("credential_not_found") ELSE rd.err

\* mutant: the synthesized error is given the read's prefix
CredentialAttemptErrWrapped(rd) ==
    IF rd.err.nil /\ rd.id = ""
    THEN Errorf("failed to read credential: credential_not_found")
    ELSE rd.err

\* mutant: the cleared-identifier check is left out
CredentialAttemptErrUnchecked(rd) == rd.err

\* retryCredentialRead: the error after the cleared-identifier check
CredentialAttemptErr(rd) ==
    IF rd.err.nil /\ rd.id = "" THEN Errorf("credential_not_found") ELSE rd.err

\* mutant: the identifier is not restored
CredentialAttemptIdNoRestore(rd, orig) == rd.id

\* retryCredentialRead: the identifier after the cleared-identifier check
CredentialAttemptId(rd, orig) ==
    IF rd.err.nil /\ rd.id = "" THEN orig ELSE rd.id

\* mutant: the sleep is not skipped after the last attempt
CredentialDecisionSleepsAfterLast(e, n, budget) ==
    IF e.nil THEN "success"
    ELSE IF ~isRetryableCredentialError(e) THEN "fatal"
    ELSE IF n < budget THEN "sleep"
    ELSE "continue"

\* retryCredentialRead: what one iteration does with the error
CredentialDecision(e, n, budget) ==
    IF e.nil THEN "success"
    ELSE IF ~isRetryableCredentialError(e) THEN "fatal"
    ELSE IF n < budget - 1 THEN "sleep"
    ELSE "continue"

\* mutant: a backoff sleep follows the last attempt too
ModelDecisionSleepsAfterLast(e, n, budget) ==
    IF e.nil THEN "success"
    ELSE IF ~isRetryableModelError(e) THEN "fatal"
    ELSE "sleep"

\* retryModelRead: what one iteration does with the read's error
ModelDecision(e, n, budget) ==
    IF e.nil THEN "success"
    ELSE IF ~isRetryableModelError(e) THEN "fatal"
    ELSE IF n < budget - 1 THEN "sleep"
    ELSE "continue"

\* mutant: the doubling is not capped
CredentialNextDelayUncapped(d) == d * 2

\* retryCredentialRead: delay *= 2, capped
CredentialNextDelay(d) ==
    IF d * 2 > CredentialMaxDelay THEN CredentialMaxDelay ELSE d * 2

\* retryModelRead: delay *= 2, capped
ModelNextDelay(d) ==
    IF d * 2 > ModelMaxDelay THEN ModelMaxDelay ELSE d * 2

----------------------------------------------------------------------------
(* Initial state: a resource of one kind, not yet created or already known *)

Init ==
    /\ kind \in {"credential", "model"}
    /\ id \in (IF kind = "credential" THEN {"", "cred-a"} ELSE {"", "m0"})
    /\ credential_name \in (IF kind = "credential" THEN CredNames ELSE {""})
    /\ secrets = LocalSecrets
    /\ req = NoRequest
    /\ uuidCount = 0
    /\ op = "none"
    /\ pc = "idle"
    /\ isUpdate = FALSE
    /\ maxRetries = 0
    /\ i = 0
    /\ delay = 0
    /\ origID = ""
    /\ err = NoErr
    /\ ret = NoErr
    /\ trace = <<>>
    /\ logs = <<>>

----------------------------------------------------------------------------
(* Credential handlers.  The framework calls Create on a resource that has *)
(* no identifier yet, and Update, Read and Delete on one that has.          *)

\* retryCredentialRead's entry: its locals before the loop
retryCredentialReadEntry(curId, budget, tr) ==
    /\ maxRetries' = budget
    /\ i' = 0
    /\ delay' = CredentialInitialDelay
    /\ origID' = curId
    /\ err' = NoErr
    /\ trace' = Append(tr, Ev("call", curId, curId, NoErr, budget, "retryCredentialRead"))
    /\ pc' = "retry"

\* the error of a write: the transport's, else the decoder's
WriteErr(r) == IF ~MakeRequest(r).nil THEN MakeRequest(r) ELSE r.decode

resourceLiteLLMCredentialCreate(r) ==
    /\ pc = "idle" /\ kind = "credential" /\ id = ""
    /\ op' = "create"
    /\ LET w == WriteEv(credential_name, id, WriteErr(r),
                     "POST /credentials", r)
       IN IF ~MakeRequest(r).nil
          THEN /\ ret' = Wrap("failed to create credential: ", MakeRequest(r))
               /\ pc' = "done"
               /\ trace' = <<w>>
               /\ UNCHANGED <<id, maxRetries, i, delay, origID, err, logs>>
          ELSE IF ~handleCredentialAPIResponse(r).nil
          THEN /\ ret' = Wrap("failed to create credential: ", handleCredentialAPIResponse(r))
               /\ pc' = "done"
               /\ trace' = <<w>>
               /\ UNCHANGED <<id, maxRetries, i, delay, origID, err, logs>>
          ELSE /\ id' = credential_name
               /\ logs' = <<Log("INFO", "created", 0, 0)>>
               /\ retryCredentialReadEntry(credential_name, CredentialBudget,
                      <<w, Ev("setid", credential_name, credential_name, NoErr, 0, "")>>)
               /\ UNCHANGED ret
    /\ UNCHANGED <<kind, req, secrets, credential_name, uuidCount, isUpdate>>

resourceLiteLLMCredentialUpdate(r) ==
    /\ pc = "idle" /\ kind = "credential" /\ id # ""
    /\ op' = "update"
    /\ LET w == WriteEv(id, id, WriteErr(r),
                     "PATCH /credentials/", r)
       IN IF ~MakeRequest(r).nil
          THEN /\ ret' = Wrap("failed to update credential: ", MakeRequest(r))
               /\ pc' = "done"
               /\ trace' = <<w>>
               /\ UNCHANGED <<maxRetries, i, delay, origID, err, logs>>
          ELSE IF ~handleCredentialAPIResponse(r).nil
          THEN /\ ret' = Wrap("failed to update credential: ", handleCredentialAPIResponse(r))
               /\ pc' = "done"
               /\ trace' = <<w>>
               /\ UNCHANGED <<maxRetries, i, delay, origID, err, logs>>
          ELSE /\ logs' = <<Log("INFO", "updated", 0, 0)>>
               /\ retryCredentialReadEntry(id, CredentialBudget, <<w>>)
               /\ UNCHANGED ret
    /\ UNCHANGED <<kind, req, secrets, id, credential_name, uuidCount, isUpdate>>

\* a call of retryCredentialRead with a budget of its own
retryCredentialRead(budget) ==
    /\ pc = "idle" /\ kind = "credential"
    /\ op' = "reconcile"
    /\ retryCredentialReadEntry(id, budget, <<>>)
    /\ UNCHANGED <<kind, req, secrets, id, credential_name, uuidCount, isUpdate, ret, logs>>

\* one iteration of retryCredentialRead's loop, up to its return or its sleep
retryCredentialReadAttempt(r) ==
    /\ pc = "retry" /\ kind = "credential" /\ i < maxRetries
    /\ LET rd == resourceLiteLLMCredentialRead(r, id, credential_name)
           e == CredentialAttemptErr(rd)
           dec == CredentialDecision(e, i, maxRetries)
       IN /\ trace' = Append(trace, Ev("read", id, rd.id, rd.err, 0, "GET /credentials/by_name/"))
          /\ id' = CredentialAttemptId(rd, origID)
          /\ credential_name' = rd.credential_name
          /\ err' = e
          /\ logs' = logs \o <<Log("INFO", "attempt", i + 1, maxRetries)>>
                       \o (CASE dec = "success" -> <<Log("INFO", "success", i + 1, 0)>>
                             [] dec = "sleep" -> <<Log("INFO", "retrying", delay, 0)>>
                             [] OTHER -> <<>>)
          /\ CASE dec = "success" -> pc' = "done" /\ ret' = NoErr /\ i' = i
               [] dec = "fatal" -> pc' = "done" /\ ret' = e /\ i' = i
               [] dec = "sleep" -> pc' = "sleep" /\ ret' = ret /\ i' = i
               [] OTHER -> pc' = "retry" /\ ret' = ret /\ i' = i + 1
    /\ secrets' = CredentialReadSecrets(r, secrets)
    /\ UNCHANGED <<kind, req, uuidCount, op, isUpdate, maxRetries, delay, origID>>

\* retryCredentialRead: time.Sleep(delay), the doubling, and the loop's i++
retryCredentialReadSleep ==
    /\ pc = "sleep" /\ kind = "credential"
    /\ trace' = Append(trace, Ev("backoff", id, id, NoErr, delay, ""))
    /\ delay' = CredentialNextDelay(delay)
    /\ i' = i + 1
    /\ pc' = "retry"
    /\ UNCHANGED <<kind, req, secrets, id, credential_name, uuidCount, op, isUpdate, maxRetries,
                   origID, err, ret, logs>>

\* retryCredentialRead: the loop has ended without a return
retryCredentialReadExhausted ==
    /\ pc = "retry" /\ kind = "credential" /\ ~(i < maxRetries)
    /\ logs' = Append(logs, Log("WARN", "failed", maxRetries, 0))
    /\ ret' = err
    /\ pc' = "done"
    /\ UNCHANGED <<kind, req, secrets, id, credential_name, uuidCount, op, isUpdate, maxRetries,
                   i, delay, origID, err, trace>>

\* the framework's refresh: resourceLiteLLMCredentialRead called on its own
ReadCredential(r) ==
    /\ pc = "idle" /\ kind = "credential" /\ id # ""
    /\ op' = "read"
    /\ LET rd == resourceLiteLLMCredentialRead(r, id, credential_name)
       IN /\ trace' = <<ReadEv(id, rd.id, rd.err, "GET /credentials/by_name/", r)>>
          /\ id' = rd.id
          /\ credential_name' = rd.credential_name
          /\ ret' = rd.err
    /\ pc' = "done"
    /\ secrets' = CredentialReadSecrets(r, secrets)
    /\ UNCHANGED <<kind, req, uuidCount, isUpdate, maxRetries, i, delay, origID, err, logs>>

resourceLiteLLMCredentialDelete(r) ==
    /\ pc = "idle" /\ kind = "credential" /\ id # ""
    /\ op' = "delete"
    /\ trace' = <<WriteEv(id, id, WriteErr(r),
                     "DELETE /credentials/", r)>>
    /\ IF ~MakeRequest(r).nil
       THEN ret' = Wrap("failed to delete credential: ", MakeRequest(r)) /\ id' = id
       ELSE IF ~handleCredentialAPIResponse(r).nil
       THEN IF handleCredentialAPIResponse(r).msg = "credential_not_found"
            THEN ret' = NoErr /\ id' = ""
            ELSE /\ ret' = Wrap("failed to delete credential: ", handleCredentialAPIResponse(r))
                 /\ id' = id
       ELSE ret' = NoErr /\ id' = ""
    /\ pc' = "done"
    /\ UNCHANGED <<kind, req, secrets, credential_name, uuidCount, isUpdate, maxRetries, i, delay,
                   origID, err, logs>>

----------------------------------------------------------------------------
(* Model handlers.  A create or update starts only while uuid.New() may     *)
(* still hand out an identifier (uuidCount < MaxUuid).                      *)

\* retryModelRead's entry: its locals and the settle delay before the loop
retryModelReadEntry(curId, budget, tr) ==
    /\ maxRetries' = budget
    /\ i' = 0
    /\ delay' = ModelInitialDelay
    /\ err' = NoErr
    /\ trace' = tr \o <<Ev("call", curId, curId, NoErr, budget, "retryModelRead"),
                        Ev("settle", curId, curId, NoErr, ModelSettleDelay, "")>>
    /\ pc' = "retry"

\* mutant: no identifier is generated, the one in d is sent
ModelRequestIdReuse(upd, curId, made) == curId

\* mutant: an identifier is generated only when d holds none
ModelRequestIdStale(upd, curId, made) ==
    IF upd \/ curId # "" THEN curId ELSE UuidOf(made + 1)

\* createOrUpdateModel: the identifier the request carries
ModelRequestId(upd, curId, made) == IF upd THEN curId ELSE UuidOf(made + 1)

\* mutant: the fallback does not test isUpdate
ModelFallbackAlways(upd, e) == e.msg = "model_not_found"

\* createOrUpdateModel: whether a decode error of the write is answered by a create
ModelFallback(upd, e) == upd /\ e.msg = "model_not_found"

\* mutant: the verbs of the two paths are exchanged
ModelVerbSwapped(upd) == IF upd THEN "create" ELSE "update"

\* createOrUpdateModel: the operation named in its error messages
ModelVerb(upd) == IF upd THEN "update" ELSE "create"

resourceLiteLLMModelCreate ==
    /\ pc = "idle" /\ kind = "model" /\ id = ""
    /\ uuidCount < MaxUuid
    /\ op' = "create"
    /\ isUpdate' = FALSE
    /\ pc' = "write"
    /\ UNCHANGED <<kind, req, secrets, id, credential_name, uuidCount, maxRetries, i, delay, origID,
                   err, ret, trace, logs>>

resourceLiteLLMModelUpdate ==
    /\ pc = "idle" /\ kind = "model" /\ id # ""
    /\ uuidCount < MaxUuid
    /\ op' = "update"
    /\ isUpdate' = TRUE
    /\ pc' = "write"
    /\ UNCHANGED <<kind, req, secrets, id, credential_name, uuidCount, maxRetries, i, delay, origID,
                   err, ret, trace, logs>>

\* one call of createOrUpdateModel(d, m, isUpdate), up to its recursive call,
\* its return or the entry of retryModelRead
createOrUpdateModel(r) ==
    /\ pc = "write" /\ kind = "model"
    /\ LET modelID == ModelRequestId(isUpdate, id, uuidCount)
           w == WriteEv(modelID, id, WriteErr(r),
                     IF isUpdate THEN "POST /model/update" ELSE "POST /model/new", r)
       IN /\ uuidCount' = IF isUpdate THEN uuidCount ELSE uuidCount + 1
          /\ IF ~MakeRequest(r).nil
             THEN /\ ret' = Wrap("failed to " \o ModelVerb(isUpdate) \o " model: ", MakeRequest(r))
                  /\ pc' = "done"
                  /\ trace' = Append(trace, w)
                  /\ UNCHANGED <<id, isUpdate, maxRetries, i, delay, err, logs>>
             ELSE IF ~handleAPIResponse(r).nil
             THEN IF ModelFallback(isUpdate, handleAPIResponse(r))
                  THEN /\ isUpdate' = FALSE
                       /\ pc' = "write"
                       /\ trace' = Append(trace, w)
                       /\ UNCHANGED <<id, maxRetries, i, delay, err, ret, logs>>
                  ELSE /\ ret' = Wrap("failed to " \o ModelVerb(isUpdate) \o " model: ",
                                      handleAPIResponse(r))
                       /\ pc' = "done"
                       /\ trace' = Append(trace, w)
                       /\ UNCHANGED <<id, isUpdate, maxRetries, i, delay, err, logs>>
             ELSE /\ id' = modelID
                  /\ logs' = Append(logs, Log("INFO", "created", 0, 0))
                  /\ retryModelReadEntry(modelID, ModelBudget,
                         trace \o <<w, Ev("setid", modelID, modelID, NoErr, 0, "")>>)
                  /\ UNCHANGED <<isUpdate, ret>>
    /\ UNCHANGED <<kind, req, secrets, credential_name, op, origID>>

\* a call of retryModelRead with a budget of its own
retryModelRead(budget) ==
    /\ pc = "idle" /\ kind = "model"
    /\ op' = "reconcile"
    /\ retryModelReadEntry(id, budget, <<>>)
    /\ UNCHANGED <<kind, req, secrets, id, credential_name, uuidCount, isUpdate, origID, ret, logs>>

\* one iteration of retryModelRead's loop, up to its return or its sleep
retryModelReadAttempt(r) ==
    /\ pc = "retry" /\ kind = "model" /\ i < maxRetries
    /\ LET rd == resourceLiteLLMModelRead(r, id)
           dec == ModelDecision(rd.err, i, maxRetries)
       IN /\ trace' = Append(trace, Ev("read", id, rd.id, rd.err, 0, "GET /model/info"))
          /\ id' = rd.id
          /\ err' = rd.err
          /\ logs' = logs \o <<Log("INFO", "attempt", i + 1, maxRetries)>>
                       \o (IF dec # "success" /\ rd.id = ""
                           THEN <<Log("DEBUG", "cleared", 0, 0)>> ELSE <<>>)
                       \o (CASE dec = "success" -> <<Log("INFO", "success", i + 1, 0)>>
                             [] dec = "fatal" -> <<Log("ERROR", "fatal", 0, 0)>>
                             [] dec = "sleep" -> <<Log("INFO", "retrying", delay, 0)>>
                             [] OTHER -> <<>>)
          /\ CASE dec = "success" -> pc' = "done" /\ ret' = NoErr /\ i' = i
               [] dec = "fatal" -> pc' = "done" /\ ret' = rd.err /\ i' = i
               [] dec = "sleep" -> pc' = "sleep" /\ ret' = ret /\ i' = i
               [] OTHER -> pc' = "retry" /\ ret' = ret /\ i' = i + 1
    /\ secrets' = ModelReadSecrets(r, secrets)
    /\ UNCHANGED <<kind, req, credential_name, uuidCount, op, isUpdate, maxRetries, delay, origID>>

\* retryModelRead: time.Sleep(delay), the doubling, and the loop's i++
retryModelReadSleep ==
    /\ pc = "sleep" /\ kind = "model"
    /\ trace' = Append(trace, Ev("backoff", id, id, NoErr, delay, ""))
    /\ delay' = ModelNextDelay(delay)
    /\ i' = i + 1
    /\ pc' = "retry"
    /\ UNCHANGED <<kind, req, secrets, id, credential_name, uuidCount, op, isUpdate, maxRetries,
                   origID, err, ret, logs>>

\* mutant: the loop's exit is tested with > for >=
retryModelReadExhaustedOffByOne ==
    /\ pc = "retry" /\ kind = "model" /\ i > maxRetries
    /\ logs' = Append(logs, Log("WARN", "failed", maxRetries, 0))
    /\ ret' = err
    /\ pc' = "done"
    /\ UNCHANGED <<kind, req, secrets, id, credential_name, uuidCount, op, isUpdate, maxRetries,
                   i, delay, origID, err, trace>>

\* retryModelRead: the loop has ended without a return
retryModelReadExhausted ==
    /\ pc = "retry" /\ kind = "model" /\ ~(i < maxRetries)
    /\ logs' = Append(logs, Log("WARN", "failed", maxRetries, 0))
    /\ ret' = err
    /\ pc' = "done"
    /\ UNCHANGED <<kind, req, secrets, id, credential_name, uuidCount, op, isUpdate, maxRetries,
                   i, delay, origID, err, trace>>

\* the framework's refresh: resourceLiteLLMModelRead called on its own
ReadModel(r) ==
    /\ pc = "idle" /\ kind = "model" /\ id # ""
    /\ op' = "read"
    /\ LET rd == resourceLiteLLMModelRead(r, id)
       IN /\ trace' = <<ReadEv(id, rd.id, rd.err, "GET /model/info", r)>>
          /\ id' = rd.id
          /\ ret' = rd.err
    /\ pc' = "done"
    /\ secrets' = ModelReadSecrets(r, secrets)
    /\ UNCHANGED <<kind, req, credential_name, uuidCount, isUpdate, maxRetries, i, delay,
                   origID, err, logs>>

\* mutant: the identifier is cleared whatever the answer
resourceLiteLLMModelDeleteAlwaysClears(r) ==
    /\ pc = "idle" /\ kind = "model" /\ id # ""
    /\ op' = "delete"
    /\ trace' = <<WriteEv(id, id, WriteErr(r),
                     "POST /model/delete", r)>>
    /\ id' = ""
    /\ IF ~MakeRequest(r).nil
       THEN ret' = Wrap("failed to delete model: ", MakeRequest(r))
       ELSE IF ~handleAPIResponse(r).nil /\ handleAPIResponse(r).msg # "model_not_found"
       THEN ret' = Wrap("failed to delete model: ", handleAPIResponse(r))
       ELSE ret' = NoErr
    /\ pc' = "done"
    /\ UNCHANGED <<kind, req, secrets, credential_name, uuidCount, isUpdate, maxRetries, i, delay,
                   origID, err, logs>>

resourceLiteLLMModelDelete(r) ==
    /\ pc = "idle" /\ kind = "model" /\ id # ""
    /\ op' = "delete"
    /\ trace' = <<WriteEv(id, id, WriteErr(r),
                     "POST /model/delete", r)>>
    /\ IF ~MakeRequest(r).nil
       THEN ret' = Wrap("failed to delete model: ", MakeRequest(r)) /\ id' = id
       ELSE IF ~handleAPIResponse(r).nil
       THEN IF handleAPIResponse(r).msg = "model_not_found"
            THEN ret' = NoErr /\ id' = ""
            ELSE ret' = Wrap("failed to delete model: ", handleAPIResponse(r)) /\ id' = id
       ELSE ret' = NoErr /\ id' = ""
    /\ pc' = "done"
    /\ UNCHANGED <<kind, req, secrets, credential_name, uuidCount, isUpdate, maxRetries, i, delay,
                   origID, err, logs>>

----------------------------------------------------------------------------
(* The handler has returned; the framework may call the next one *)

Return ==
    /\ pc = "done"
    /\ pc' = "idle"
    /\ op' = "none"
    /\ isUpdate' = FALSE
    /\ maxRetries' = 0
    /\ i' = 0
    /\ delay' = 0
    /\ origID' = ""
    /\ err' = NoErr
    /\ ret' = NoErr
    /\ trace' = <<>>
    /\ logs' = <<>>
    /\ UNCHANGED <<kind, req, secrets, id, credential_name, uuidCount>>

Next ==
    \/ \E r \in Responses : resourceLiteLLMCredentialCreate(r)
    \/ \E r \in Responses : resourceLiteLLMCredentialUpdate(r)
    \/ \E n \in Budgets : retryCredentialRead(n)
    \/ \E r \in Responses : retryCredentialReadAttempt(r)
    \/ retryCredentialReadSleep
    \/ retryCredentialReadExhausted
    \/ \E r \in Responses : ReadCredential(r)
    \/ \E r \in Responses : resourceLiteLLMCredentialDelete(r)
    \/ resourceLiteLLMModelCreate
    \/ resourceLiteLLMModelUpdate
    \/ \E r \in Responses : createOrUpdateModel(r)
    \/ \E n \in Budgets : retryModelRead(n)
    \/ \E r \in Responses : retryModelReadAttempt(r)
    \/ retryModelReadSleep
    \/ retryModelReadExhausted
    \/ \E r \in Responses : ReadModel(r)
    \/ \E r \in Responses : resourceLiteLLMModelDelete(r)
    \/ Return

Spec == Init /\ [][Next]_vars

\* a handler that has been entered goes on: every request and every sleep of
\* the call in progress returns, and the code after it runs
Progress ==
    /\ WF_vars(\E r \in Responses : createOrUpdateModel(r))
    /\ WF_vars(\E r \in Responses : retryCredentialReadAttempt(r))
    /\ WF_vars(retryCredentialReadSleep)
    /\ WF_vars(retryCredentialReadExhausted)
    /\ WF_vars(\E r \in Responses : retryModelReadAttempt(r))
    /\ WF_vars(retryModelReadSleep)
    /\ WF_vars(retryModelReadExhausted)

FairSpec == Init /\ [][Next]_vars /\ Progress

----------------------------------------------------------------------------
(* The classification of one attempt's error, on errors of every shape: the   *)
(* loop's locals are drawn at the point where an attempt's error is known.    *)

\* error messages with and without the patterns the reconcilers look for
Messages ==
    {pre \o mid \o suf :
        pre \in {"", "failed to read model: API request failed: "},
        mid \in {"", "not found", "Model id =", "model_not_found", "credential_not_found",
                 "Not Found", "model_not_foun", "credential-not-found",
                 "connection refused"},
        suf \in {"", " in db"}}

InitClassify ==
    /\ kind \in {"credential", "model"}
    /\ id = (IF kind = "credential" THEN "cred-a" ELSE "m0")
    /\ credential_name = (IF kind = "credential" THEN "cred-a" ELSE "")
    /\ secrets = LocalSecrets
    /\ req = NoRequest
    /\ uuidCount = 0
    /\ op = "reconcile"
    /\ pc = "classify"
    /\ isUpdate = FALSE
    /\ maxRetries \in 1 .. MaxClassifyBudget
    /\ i \in 0 .. (maxRetries - 1)
    /\ delay = (IF kind = "credential" THEN CredentialInitialDelay ELSE ModelInitialDelay)
    /\ origID = (IF kind = "credential" THEN id ELSE "")
    /\ err \in {NoErr} \cup {Errorf(m) : m \in Messages}
    /\ ret = NoErr
    /\ trace = <<>>
    /\ logs = <<>>

\* retryCredentialRead: what the loop does once the attempt's error is known
ClassifyCredentialAttempt ==
    /\ pc = "classify" /\ kind = "credential"
    /\ LET dec == CredentialDecision(err, i, maxRetries)
       IN CASE dec = "success" -> pc' = "done" /\ ret' = NoErr /\ i' = i
            [] dec = "fatal" -> pc' = "done" /\ ret' = err /\ i' = i
            [] dec = "sleep" -> pc' = "sleep" /\ ret' = ret /\ i' = i
            [] OTHER -> pc' = "retry" /\ ret' = ret /\ i' = i + 1
    /\ UNCHANGED <<kind, req, secrets, id, credential_name, uuidCount, op, isUpdate,
                   maxRetries, delay, origID, err, trace, logs>>

\* retryModelRead: what the loop does once the read's error is known
ClassifyModelAttempt ==
    /\ pc = "classify" /\ kind = "model"
    /\ LET dec == ModelDecision(err, i, maxRetries)
       IN CASE dec = "success" -> pc' = "done" /\ ret' = NoErr /\ i' = i
            [] dec = "fatal" -> pc' = "done" /\ ret' = err /\ i' = i
            [] dec = "sleep" -> pc' = "sleep" /\ ret' = ret /\ i' = i
            [] OTHER -> pc' = "retry" /\ ret' = ret /\ i' = i + 1
    /\ UNCHANGED <<kind, req, secrets, id, credential_name, uuidCount, op, isUpdate,
                   maxRetries, delay, origID, err, trace, logs>>

NextClassify ==
    \/ ClassifyCredentialAttempt
    \/ ClassifyModelAttempt

SpecClassify == InitClassify /\ [][NextClassify]_vars

----------------------------------------------------------------------------
(* The assembly of litellm_params on additional parameters of every shape.   *)
(* The keys of a Go map are ranged over in no fixed order: the loop body      *)
(* runs on any key that is still pending.                                     *)

\* string values of additional_drop_params: lists, and what is not a list
DropValues ==
    {"[\"api_key\"]", "[\"temperature\", \"model\"]", "[]", " [\"stop\"] ",
     "[1, \"api_key\"]", "{\"api_key\": 1}", "[\"api_key\"", "api_key", "true"}

\* string values of an additional parameter
ParamValues ==
    {"true", "false", "True", "42", "-7", "+5", "007", "0", "1.5", "1.50", ".5", "1.",
     "abc", "", "null", "\"abc\"", " 12", "[1,2]", "[\"a\", \"b\"]", "{\"a\": 1}",
     "[abc", "{", " [\"a\"] "}

\* the values each key of the additional parameters may have
ValuesOf(key) ==
    CASE key = ReservedKey -> DropValues
      [] key = "temperature" -> ParamValues
      [] key = "api_key" -> {"sk-extra", "42"}

\* values of the additional_litellm_params field
Bags ==
    UNION {{b \in [S -> DropValues \cup ParamValues \cup {"sk-extra"}] :
                \A k \in S : b[k] \in ValuesOf(k)} :
           S \in SUBSET {ReservedKey, "temperature", "api_key"}}

InitParams ==
    /\ kind = "model"
    /\ id = ""
    /\ credential_name = ""
    /\ secrets = LocalSecrets
    /\ \E bag \in Bags :
           req = [litellmParams |-> BaseParams, additional |-> bag,
                  pending |-> DOMAIN bag, dropParams |-> <<>>]
    /\ uuidCount = 0
    /\ op = "create"
    /\ pc = "params"
    /\ isUpdate = FALSE
    /\ maxRetries = 0
    /\ i = 0
    /\ delay = 0
    /\ origID = ""
    /\ err = NoErr
    /\ ret = NoErr
    /\ trace = <<>>
    /\ logs = <<>>

\* createOrUpdateModel: the loop body on one key of the additional parameters
MergeAdditionalParam ==
    /\ pc = "params"
    /\ \E key \in req.pending :
           req' = [req EXCEPT
                     !.litellmParams = ParamsAfter(@, key, req.additional[key]),
                     !.dropParams = DropParamsAfter(@, key, req.additional[key]),
                     !.pending = @ \ {key}]
    /\ UNCHANGED <<kind, id, credential_name, secrets, uuidCount, op, pc, isUpdate,
                   maxRetries, i, delay, origID, err, ret, trace, logs>>

\* createOrUpdateModel: the loop over dropParams; litellmParams is then final
ApplyDropParams ==
    /\ pc = "params"
    /\ req.pending = {}
    /\ req' = [req EXCEPT !.litellmParams = DeleteAll(@, req.dropParams)]
    /\ pc' = "built"
    /\ UNCHANGED <<kind, id, credential_name, secrets, uuidCount, op, isUpdate,
                   maxRetries, i, delay, origID, err, ret, trace, logs>>

NextParams ==
    \/ MergeAdditionalParam
    \/ ApplyDropParams

SpecParams == InitParams /\ [][NextParams]_vars

----------------------------------------------------------------------------
(* What a handler call has done so far *)

Reads == SelectSeq(trace, LAMBDA e : e.type = "read")

Backoffs == SelectSeq(trace, LAMBDA e : e.type = "backoff")

Writes == SelectSeq(trace, LAMBDA e : e.type = "write")

\* the reconciler of that name has been entered in this handler call
Called(name) == \E k \in DOMAIN trace : trace[k].type = "call" /\ trace[k].ep = name

Reconciling == Called("retryCredentialRead") \/ Called("retryModelRead")

\* the handler has returned
Returned == pc = "done"

\* a read that returned nil and left the identifier empty
ClearedRead(e) == e.type = "read" /\ e.err.nil /\ e.idAfter = ""

\* a read that returned nil and left an identifier
SuccessfulRead(e) == e.type = "read" /\ e.err.nil /\ e.idAfter # ""

\* a read whose error message carries none of the patterns its kind retries on
FatalRead(e) ==
    /\ e.type = "read"
    /\ ~e.err.nil
    /\ IF kind = "credential"
       THEN ~Contains(e.err.msg, "credential_not_found")
       ELSE /\ ~Contains(e.err.msg, "not found")
            /\ ~Contains(e.err.msg, "Model id =")
            /\ ~Contains(e.err.msg, "model_not_found")

----------------------------------------------------------------------------
(* Claims *)

\* C1: with a budget N >= 1, when every read of retryCredentialRead returned nil
\* with the identifier cleared (the 404 answer), the call returns after exactly N
\* reads and N-1 backoff sleeps, the last event being a read (no sleep after the
\* last attempt), and its error message is exactly "credential_not_found".
C1_ExhaustsOnNotFound ==
    (/\ Returned
     /\ Called("retryCredentialRead")
     /\ maxRetries >= 1
     /\ \A k \in DOMAIN Reads : ClearedRead(Reads[k]))
    => /\ Len(Reads) = maxRetries
       /\ Len(Backoffs) = maxRetries - 1
       /\ trace[Len(trace)].type = "read"
       /\ ~ret.nil
       /\ ret.msg = "credential_not_found"

\* C1 witness: a call with budget 3 on an existing credential returned after
\* three reads that cleared the identifier.
C1_Witness ==
    /\ Returned
    /\ Called("retryCredentialRead")
    /\ maxRetries = 3
    /\ id # ""
    /\ Len(Reads) = 3
    /\ \A k \in DOMAIN Reads : ClearedRead(Reads[k])

\* C2: in either reconciler, a read that succeeds with a non-empty identifier is
\* the last event of the call: the call has returned nil, after k <= N reads and
\* exactly k-1 backoff sleeps, every earlier read having failed.
C2_SuccessStopsTheLoop ==
    \A k \in DOMAIN trace :
        (Reconciling /\ SuccessfulRead(trace[k]))
        => /\ Returned
           /\ ret.nil
           /\ k = Len(trace)
           /\ id # ""
           /\ Len(Reads) <= maxRetries
           /\ Len(Backoffs) = Len(Reads) - 1
           /\ \A j \in 1 .. (Len(Reads) - 1) : ~SuccessfulRead(Reads[j])

\* C2 witness: retryModelRead returned nil on the third read of a larger budget,
\* after two not-found errors.
C2_Witness ==
    /\ Returned
    /\ Called("retryModelRead")
    /\ ret.nil
    /\ maxRetries > 3
    /\ Len(Reads) = 3
    /\ SuccessfulRead(Reads[3])
    /\ ~Reads[1].err.nil
    /\ ~Reads[2].err.nil

\* C3: in either reconciler, a read whose error is not retryable ends the call at
\* that attempt: it is the last event (no further read, no sleep after it) and
\* the call returns that very error, whatever budget remains.
C3_FatalStopsTheLoop ==
    \A k \in DOMAIN trace :
        (Reconciling /\ FatalRead(trace[k]))
        => /\ Returned
           /\ k = Len(trace)
           /\ ret = trace[k].err

\* C3 witness: retryCredentialRead returned a fatal error at its second attempt
\* with budget left.
C3_Witness ==
    /\ Returned
    /\ Called("retryCredentialRead")
    /\ Len(Reads) = 2
    /\ maxRetries > 2
    /\ FatalRead(Reads[2])
    /\ ret = Reads[2].err

\* C4: in a call of retryCredentialRead entered with a non-empty identifier origID,
\* every read is issued with the identifier origID, and the identifier is origID
\* after every step of the call, its return included.
C4_IdentifierRestored ==
    (Called("retryCredentialRead") /\ origID # "")
    => /\ id = origID
       /\ \A k \in DOMAIN Reads : Reads[k].id = origID

\* C4 witness: the call returned on an exhausted budget after reads that cleared
\* the identifier.
C4_Witness ==
    /\ Returned
    /\ Called("retryCredentialRead")
    /\ origID # ""
    /\ Len(Reads) = 2
    /\ ClearedRead(Reads[1])
    /\ ClearedRead(Reads[2])
    /\ ~ret.nil
    /\ id = origID

\* a write whose answer was decoded to no error
SuccessfulWrite(e) == e.type = "write" /\ e.err.nil

\* a write whose answer was decoded to the kind's not-found sentinel
NotFoundWrite(e) == e.type = "write" /\ e.status # 0 /\ ~e.err.nil /\ e.err.msg = Sentinel

\* the reconciler's loop ended because the budget was used up
Exhausted == Returned /\ Reconciling /\ ~(i < maxRetries)

\* C5: when a create or update returns nil, the identifier is non-empty, it is the
\* identifier sent in the last successful write, and the last read succeeded.
C5_NilMeansReadable ==
    (Returned /\ op \in {"create", "update"} /\ ret.nil)
    => /\ id # ""
       /\ Len(Writes) >= 1
       /\ SuccessfulWrite(Writes[Len(Writes)])
       /\ id = Writes[Len(Writes)].id
       /\ Len(Reads) >= 1
       /\ SuccessfulRead(Reads[Len(Reads)])

\* C6: in an update of a model whose write reported "model_not_found", a create is
\* sent next and nothing else is written: at most two writes, the second to
\* /model/new; when that create reports "model_not_found" too, the call returns
\* "failed to create model: model_not_found". No other call writes twice.
C6_OneFallback ==
    kind = "model"
    => /\ Len(Writes) <= 2
       /\ (Len(Writes) = 2
           => op = "update" /\ Writes[1].ep = "POST /model/update" /\ NotFoundWrite(Writes[1]))
       /\ (op = "update" /\ Len(Writes) >= 1 /\ NotFoundWrite(Writes[1]))
          => /\ Len(Writes) = 1 => (pc = "write" /\ ~isUpdate)
             /\ Len(Writes) = 2
                => /\ Writes[2].ep = "POST /model/new"
                   /\ NotFoundWrite(Writes[2])
                      => /\ Returned
                         /\ ret = Errorf("failed to create model: model_not_found")
                         /\ Len(Reads) = 0

\* C6 witness: an update returned after its fallback create was answered
\* "model_not_found" as well.
C6_Witness ==
    /\ Returned
    /\ kind = "model"
    /\ op = "update"
    /\ Len(Writes) = 2
    /\ NotFoundWrite(Writes[1])
    /\ NotFoundWrite(Writes[2])

\* C7: in retryModelRead, a read that returned nil having cleared a non-empty
\* identifier is followed by the identifier's restoration and is never the read
\* the call returns nil on.
C7_ModelClearedReadRetried ==
    \A k \in DOMAIN trace :
        (Called("retryModelRead") /\ ClearedRead(trace[k]) /\ trace[k].id # "")
        => /\ id = trace[k].id
           /\ ~(Returned /\ ret.nil /\ id = "")

\* C8: an update of a credential whose write reported "credential_not_found" is
\* retried once as a create: it does not return before a create has been written.
C8_CredentialFallback ==
    (/\ kind = "credential"
     /\ op = "update"
     /\ Returned
     /\ NotFoundWrite(Writes[1]))
    => /\ Len(Writes) = 2
       /\ Writes[2].ep = "POST /credentials"

\* the prefix a create or update puts before the errors it wraps
OperationPrefix == "failed to " \o op \o " " \o kind \o ": "

\* C9 as stated: the error of an exhausted reconciliation reaches the caller of
\* the create or update wrapped with the operation's prefix.
C9_ExhaustionWrapped ==
    (Exhausted /\ op \in {"create", "update"})
    => (~ret.nil /\ HasPrefix(ret.msg, OperationPrefix))

\* the error of the attempt that read e ended with
AttemptError(e) ==
    IF kind = "credential" /\ ClearedRead(e) THEN Errorf("credential_not_found") ELSE e.err

\* C9 amended: the error of an exhausted reconciliation reaches the caller of the
\* create or update as the reconciler returned it, the last attempt's error with
\* no operation prefix: "credential_not_found" itself when the last credential
\* read cleared the identifier, else the read's own "failed to read <kind>: ..."
C9_ExhaustionUnwrapped ==
    (Exhausted /\ op \in {"create", "update"})
    => /\ ~ret.nil
       /\ Len(Reads) = maxRetries
       /\ ret = AttemptError(Reads[Len(Reads)])
       /\ ~HasPrefix(ret.msg, OperationPrefix)
       /\ \/ ret.msg = "credential_not_found"
          \/ HasPrefix(ret.msg, "failed to read " \o kind \o ": ")

\* C9 witness: a credential create returned after five reads that cleared the
\* identifier.
C9_Witness ==
    /\ Exhausted
    /\ kind = "credential"
    /\ op = "create"
    /\ Len(Reads) = CredentialBudget
    /\ \A k \in DOMAIN Reads : ClearedRead(Reads[k])
    /\ ret = Errorf("credential_not_found")

RECURSIVE Pow2(_)
Pow2(n) == IF n <= 0 THEN 1 ELSE 2 * Pow2(n - 1)

Min(a, b) == IF a <= b THEN a ELSE b

\* the first backoff delay of the kind's reconciler (ms)
InitialDelay == IF kind = "credential" THEN 1000 ELSE 500

\* C10: within one call the j-th backoff sleep lasts min(initial * 2^(j-1), 10 s),
\* initial being 1 s for credentials and 500 ms for models, whatever happened in
\* earlier calls; so the delays never decrease and never exceed 10 s.
C10_BackoffSchedule ==
    /\ \A j \in DOMAIN Backoffs : Backoffs[j].ms = Min(InitialDelay * Pow2(j - 1), 10000)
    /\ \A j \in DOMAIN Backoffs : Backoffs[j].ms <= 10000
    /\ \A j \in 1 .. (Len(Backoffs) - 1) : Backoffs[j].ms <= Backoffs[j + 1].ms

\* C10 witness: a fifth backoff sleep of retryCredentialRead, the first one the
\* cap shortens.
C10_Witness ==
    /\ kind = "credential"
    /\ Len(Backoffs) = 5
    /\ Backoffs[4].ms = 8000
    /\ Backoffs[5].ms = 10000

\* a model read whose error message carries one of the patterns retryModelRead
\* retries on
RetryableModelRead(e) ==
    /\ e.type = "read"
    /\ ~e.err.nil
    /\ \/ Contains(e.err.msg, "not found")
       \/ Contains(e.err.msg, "Model id =")
       \/ Contains(e.err.msg, "model_not_found")

Settles == SelectSeq(trace, LAMBDA e : e.type = "settle")

\* every time.Sleep of the call, in order
Sleeps == SelectSeq(trace, LAMBDA e : e.type \in {"settle", "backoff"})

RECURSIVE SumMs(_)
SumMs(s) == IF s = <<>> THEN 0 ELSE s[1].ms + SumMs(Tail(s))

\* C12: when a model create or update (budget 8) has used up its budget on
\* retryable errors, it has slept 200 ms, then 500 ms, 1 s, 2 s, 4 s, 8 s, 10 s,
\* 10 s and 10 s, about 45 s in total.
C12_WorstCaseWait ==
    (/\ Exhausted
     /\ kind = "model"
     /\ op \in {"create", "update"}
     /\ \A k \in DOMAIN Reads : RetryableModelRead(Reads[k]))
    => /\ [k \in DOMAIN Sleeps |-> Sleeps[k].ms]
            = <<200, 500, 1000, 2000, 4000, 8000, 10000, 10000, 10000>>
       /\ SumMs(Sleeps) \in 44000 .. 46000

\* the verb of the handler path that sent write e
WriteVerb(e) ==
    IF e.ep \in {"POST /model/update", "PATCH /credentials/"} THEN "update" ELSE "create"

\* C13: when a create or update returns after a write that failed (transport
\* failure, or an answer decoded to an error other than the not-found sentinel on
\* the update path), the returned error is the write's error prefixed once with
\* "failed to create <kind>: " or "failed to update <kind>: " after the path that
\* sent it, the call has made no read and no sleep, and the identifier is the one
\* held before the call.
C13_WriteFailure ==
    (/\ Returned
     /\ op \in {"create", "update"}
     /\ Len(Writes) >= 1
     /\ ~Writes[Len(Writes)].err.nil
     /\ ~(WriteVerb(Writes[Len(Writes)]) = "update" /\ NotFoundWrite(Writes[Len(Writes)])))
    => LET w == Writes[Len(Writes)]
       IN /\ ret = Errorf("failed to " \o WriteVerb(w) \o " " \o kind \o ": " \o w.err.msg)
          /\ ~HasPrefix(w.err.msg, "failed to ")
          /\ Len(Reads) = 0
          /\ Len(Sleeps) = 0
          /\ ~Reconciling
          /\ id = Writes[1].idAfter

\* C13 witness: an update of model m0 fell back to a create whose request failed
\* at transport level; the identifier is still m0.
C13_Witness ==
    /\ Returned
    /\ kind = "model"
    /\ op = "update"
    /\ Len(Writes) = 2
    /\ Writes[2].status = 0
    /\ ret = Errorf("failed to create model: connection refused")
    /\ id = "m0"

\* the budget the kind's create and update hand to the reconciler
KindBudget == IF kind = "credential" THEN 5 ELSE 8

\* C14: in a create or update, every read attempt comes after a write that
\* succeeded and asks for the non-empty identifier that write sent, which the
\* field set holds (put there by a SetId before the read in every create and in
\* the model update); the reconciler is entered after the successful write with
\* budget 5 (credential) or 8 (model); and the call returns what the reconciler's
\* last attempt ended with, with no prefix added.
C14_WriteThenReconcile ==
    op \in {"create", "update"}
    => /\ \A k \in DOMAIN trace :
              trace[k].type = "read"
              => /\ trace[k].id # ""
                 /\ \E j \in 1 .. (k - 1) :
                        SuccessfulWrite(trace[j]) /\ trace[j].id = trace[k].id
                 /\ (op = "create" \/ kind = "model")
                    => \E j \in 1 .. (k - 1) :
                           trace[j].type = "setid" /\ trace[j].id = trace[k].id
       /\ \A k \in DOMAIN trace :
              trace[k].type = "call"
              => /\ trace[k].ms = KindBudget
                 /\ maxRetries = KindBudget
                 /\ \E j \in 1 .. (k - 1) : SuccessfulWrite(trace[j])
                 /\ \A j \in 1 .. (k - 1) : trace[j].type # "read"
       /\ (Returned /\ Reconciling)
          => /\ Len(Reads) >= 1
             /\ ret = AttemptError(Reads[Len(Reads)])
             /\ ~HasPrefix(ret.msg, OperationPrefix)

\* C14 witness: a model create returned the fatal error of its second read; its
\* trace starts with the write, the SetId, the reconciler's entry with budget 8
\* and the settle sleep.
C14_Witness ==
    /\ Returned
    /\ kind = "model"
    /\ op = "create"
    /\ Len(trace) >= 5
    /\ [k \in 1 .. 5 |-> trace[k].type] = <<"write", "setid", "call", "settle", "read">>
    /\ trace[3].ms = 8
    /\ trace[2].id = trace[5].id
    /\ Len(Reads) = 2
    /\ FatalRead(Reads[2])
    /\ ret = Reads[2].err

\* an error whose message carries a pattern the kind's reconciler retries on
RetryablePattern(e) ==
    /\ ~e.nil
    /\ IF kind = "credential"
       THEN Contains(e.msg, "credential_not_found")
       ELSE \/ Contains(e.msg, "not found")
            \/ Contains(e.msg, "Model id =")
            \/ Contains(e.msg, "model_not_found")

\* another attempt follows the classified one
AnotherAttempt == pc = "sleep" \/ (pc = "retry" /\ i < maxRetries)

\* C15: once an attempt's error is classified, a nil error has ended the call
\* with nil; an error is retried on (a sleep, or the loop's next turn) exactly
\* when its message contains "credential_not_found" (credential) or one of
\* "not found", "Model id =", "model_not_found" (model); any other error has
\* ended the call with that error; and another attempt follows only a retryable
\* error.  The model classifier itself is false on nil and true exactly on the
\* three patterns.
C15_Classification ==
    /\ kind = "model"
       => isRetryableModelError(err) = RetryablePattern(err)
    /\ ~isRetryableModelError(NoErr)
    /\ pc # "classify"
       => /\ err.nil => (pc = "done" /\ ret.nil)
          /\ RetryablePattern(err) <=> pc \in {"sleep", "retry"}
          /\ (~err.nil /\ ~RetryablePattern(err)) => (pc = "done" /\ ret = err)
          /\ AnotherAttempt => RetryablePattern(err)
          /\ (RetryablePattern(err) /\ i < maxRetries - 1) => pc = "sleep"

\* C15 witness: a model error that carries only the "Model id =" pattern was
\* classified with budget left and is retried on.
C15_Witness ==
    /\ kind = "model"
    /\ pc = "sleep"
    /\ err = Errorf("Model id =")
    /\ ~Contains(err.msg, "not found")
    /\ AnotherAttempt

\* the answer to a read made by the framework was the kind's not-found signal:
\* the decoder's sentinel, or for a credential the status 404
DomainNotFound(e) ==
    /\ e.status # 0
    /\ \/ kind = "credential" /\ e.status = StatusNotFound
       \/ ~e.answer.nil /\ e.answer.msg = Sentinel

\* C16: every read, in a reconciler or on its own, leaves in the field set the
\* identifier it was called with or the empty one; it has emptied the identifier
\* only when it returns nil, and when it returns an error the identifier is
\* unchanged.  A read called by the framework empties the identifier exactly when
\* the answer was the kind's not-found signal, and then returns nil; its errors
\* carry the prefix "failed to read <kind>: ".
C16_ReadConvention ==
    /\ \A k \in DOMAIN Reads :
           /\ Reads[k].idAfter \in {Reads[k].id, ""}
           /\ Reads[k].idAfter # Reads[k].id => Reads[k].err.nil
           /\ ~Reads[k].err.nil => Reads[k].idAfter = Reads[k].id
    /\ (Returned /\ op = "read")
       => /\ Len(trace) = 1
          /\ trace[1].type = "read"
          /\ id = trace[1].idAfter
          /\ ret = trace[1].err
          /\ id # trace[1].id <=> DomainNotFound(trace[1])
          /\ DomainNotFound(trace[1]) => (id = "" /\ ret.nil)
          /\ ~ret.nil
             => /\ id = trace[1].id
                /\ HasPrefix(ret.msg, "failed to read " \o kind \o ": ")

\* C16 witness: a read of model m0 was answered "model_not_found"; it returned
\* nil and the identifier is empty.
C16_Witness ==
    /\ Returned
    /\ op = "read"
    /\ kind = "model"
    /\ trace[1].id = "m0"
    /\ DomainNotFound(trace[1])
    /\ id = ""
    /\ ret.nil

\* C17: a delete that has returned has cleared the identifier and returned nil
\* exactly when its request was answered without error or with the kind's
\* not-found sentinel; in every other case (transport failure, any other decode
\* error) it returns that error behind "failed to delete <kind>: " and the
\* identifier is the one held before the call.
C17_Delete ==
    (Returned /\ op = "delete")
    => /\ Len(trace) = 1
       /\ trace[1].type = "write"
       /\ (trace[1].err.nil \/ NotFoundWrite(trace[1])) <=> (id = "" /\ ret.nil)
       /\ ~(trace[1].err.nil \/ NotFoundWrite(trace[1]))
          => /\ ret = Errorf("failed to delete " \o kind \o ": " \o trace[1].err.msg)
             /\ id = trace[1].idAfter
             /\ id # ""

\* C17 witness: the delete of model m0 was answered with status 500; it returned
\* the wrapped error and the identifier is still m0.
C17_Witness ==
    /\ Returned
    /\ op = "delete"
    /\ kind = "model"
    /\ Len(trace) = 1
    /\ trace[1].status = 500
    /\ ret = Errorf("failed to delete model: API request failed: 500")
    /\ id = "m0"

\* C18: when a create or update returns an error after its reconciler was entered
\* (a fatal read error or a used-up budget), the last write had succeeded and the
\* identifier in the field set is the non-empty identifier that write sent; a
\* create does not fall back to the empty identifier it started with, and an
\* update that fell back to a create does not fall back to the old one.
C18_NoRollback ==
    (Returned /\ op \in {"create", "update"} /\ Reconciling /\ ~ret.nil)
    => /\ Len(Writes) >= 1
       /\ SuccessfulWrite(Writes[Len(Writes)])
       /\ id = Writes[Len(Writes)].id
       /\ id # ""
       /\ WriteVerb(Writes[Len(Writes)]) = "create" => id # Writes[1].idAfter
       /\ Len(Reads) >= 1
       /\ \/ FatalRead(Reads[Len(Reads)])
          \/ Exhausted

\* C18 witness: an update of model m0 fell back to a create that succeeded, and
\* the reconciliation used up its budget; the identifier is the generated one.
C18_Witness ==
    /\ Exhausted
    /\ kind = "model"
    /\ op = "update"
    /\ Len(Writes) = 2
    /\ ~ret.nil
    /\ Len(Reads) = ModelBudget
    /\ id = Writes[2].id
    /\ id # "m0"

\* C19: in createOrUpdateModel, a write to /model/update carries the identifier
\* the resource held before the call, and a write to /model/new (the create sent
\* as fallback of an update included) carries a generated identifier, not empty,
\* different from the one held before the call and from every identifier written
\* earlier in the call; each SetId follows a successful write and assigns the
\* identifier that write sent, so that when the reconciliation starts the field
\* set holds it: the old identifier after an update, the new one after a fallback.
C19_IdentifierChoice ==
    (kind = "model" /\ op \in {"create", "update"})
    => /\ \A k \in DOMAIN Writes :
              /\ Writes[k].ep = "POST /model/update"
                 => /\ Writes[k].id = Writes[k].idAfter
                    /\ Writes[k].id # ""
              /\ Writes[k].ep = "POST /model/new"
                 => /\ Writes[k].id # ""
                    /\ Writes[k].id # Writes[k].idAfter
                    /\ Writes[k].id = UuidOf(uuidCount)
                    /\ \A j \in 1 .. (k - 1) : Writes[j].id # Writes[k].id
       /\ \A k \in DOMAIN trace :
              trace[k].type = "setid"
              => /\ k > 1
                 /\ SuccessfulWrite(trace[k - 1])
                 /\ trace[k].id = trace[k - 1].id
       /\ (Len(Writes) >= 1 /\ SuccessfulWrite(Writes[Len(Writes)]))
          => /\ Len(Reads) = 0 => id = Writes[Len(Writes)].id
             /\ \A k \in DOMAIN Reads : Reads[k].id = Writes[Len(Writes)].id

\* C19 witness: an update of model m0 was answered "model_not_found", the create
\* sent next succeeded, and the reconciliation starts with the generated
\* identifier in the field set.
C19_Witness ==
    /\ kind = "model"
    /\ op = "update"
    /\ pc = "retry"
    /\ Len(Writes) = 2
    /\ Writes[1].id = "m0"
    /\ SuccessfulWrite(Writes[2])
    /\ Len(Reads) = 0
    /\ id = Writes[2].id
    /\ id # "m0"

Calls == SelectSeq(trace, LAMBDA e : e.type = "call")

\* C20: at every point of a create or update, whatever the server answered, at
\* most two writes have been sent, two only in a model update whose first write
\* was answered with the not-found sentinel and whose second write is the
\* create; a reconciler has been entered at most once; and at most 5 (credential)
\* or 8 (model) reads have been made.
C20_BoundedWork ==
    op \in {"create", "update"}
    => /\ Len(Writes) <= 2
       /\ Len(Writes) = 2
          => /\ kind = "model"
             /\ op = "update"
             /\ Writes[1].ep = "POST /model/update"
             /\ NotFoundWrite(Writes[1])
             /\ Writes[2].ep = "POST /model/new"
       /\ Len(Calls) <= 1
       /\ Len(Reads) <= KindBudget
       /\ Len(Reads) >= 1 => Len(Calls) = 1

\* C20 witness: an update of a model returned after two writes, one entry of
\* retryModelRead and eight reads.
C20_Witness ==
    /\ Returned
    /\ kind = "model"
    /\ op = "update"
    /\ Len(Writes) = 2
    /\ Len(Calls) = 1
    /\ Len(Reads) = 8

\* C21: under the assumption that each request and each sleep returns, every
\* call that is in progress (a create or update between its writes, a
\* reconciler in its loop or in a sleep) eventually returns, whatever the budget
\* and whatever the server answers.
C21_Termination == (pc \in {"write", "retry", "sleep"}) ~> Returned

\* C21 witness: an update of a model has returned after two writes and eight
\* reads separated by seven sleeps, the longest path of a call.
C21_Witness ==
    /\ Returned
    /\ kind = "model"
    /\ op = "update"
    /\ Len(Writes) = 2
    /\ Len(Reads) = ModelBudget
    /\ Len(Backoffs) = ModelBudget - 1
    /\ ~ret.nil

\* C22: a step that makes a read, alone or as an attempt of a reconciler, leaves
\* every secret field of d (credential_values; model_api_key, aws_access_key_id,
\* aws_secret_access_key) at the value it had before the step, whatever the
\* server answered.
C22_SecretsUnchangedByRead ==
    [][(Len(trace') >= 1 /\ trace' # trace /\ trace'[Len(trace')].type = "read")
       => secrets' = secrets]_vars

\* C22 witness: a model reconciliation returned on its third read, which the
\* server answered with a model (keys of its own included); the secret fields
\* hold the local values.
C22_Witness ==
    /\ Returned
    /\ kind = "model"
    /\ Called("retryModelRead")
    /\ Len(Reads) = 3
    /\ SuccessfulRead(Reads[3])
    /\ secrets = LocalSecrets
    /\ secrets.model_api_key = "sk-local"

\* the request's litellm_params are final
Built == pc = "built"

\* the keys the value of additional_drop_params names: the strings of the list
\* it is the JSON text of
NamedDropKeys ==
    IF ReservedKey \in DOMAIN req.additional
       /\ Unmarshal(req.additional[ReservedKey]).ok
       /\ Unmarshal(req.additional[ReservedKey]).val.tag = "list"
    THEN {Unmarshal(req.additional[ReservedKey]).val.items[k].str :
             k \in {j \in DOMAIN Unmarshal(req.additional[ReservedKey]).val.items :
                       Unmarshal(req.additional[ReservedKey]).val.items[j].tag = "string"}}
    ELSE {}

\* C23: once litellm_params is final, it holds none of the keys named in the
\* additional_drop_params list, base parameters included, in whatever order the
\* additional parameters were merged, and it does not hold the key
\* additional_drop_params itself.
C23_DropListAppliedLast ==
    Built
    => /\ \A k \in NamedDropKeys : k \notin DOMAIN req.litellmParams
       /\ ReservedKey \notin DOMAIN req.litellmParams

\* the additional parameters the loop body has run on
Merged == DOMAIN req.additional \ req.pending

\* a number as the request's JSON text carries it: 42 whether int or float
Wire(v) == IF v.tag = "int" THEN FloatValue(v.num, 0) ELSE v

\* the first stage that succeeds when JSON is tried on every string
FirstStage(s) ==
    IF Unmarshal(s).ok THEN Unmarshal(s).val
    ELSE IF s \in {"true", "false"} THEN BoolValue(s = "true")
    ELSE IF Atoi(s).ok THEN IntValue(Atoi(s).val)
    ELSE IF ParseFloat(s).ok THEN ParseFloat(s).val
    ELSE StringValue(s)

\* C24: every additional parameter that has been merged and is in litellm_params
\* has the value of the first stage that succeeds on its string, the stages
\* being JSON, the literals "true" and "false", integer, float, and the string
\* itself (an integer and a float of the same value being the same parameter).
C24_CoercionPipeline ==
    \A key \in Merged :
        key \in DOMAIN req.litellmParams
        => Wire(req.litellmParams[key]) = Wire(FirstStage(req.additional[key]))

\* the JSON stage as it is entered: only on a string whose first character
\* after leading spaces is "[" or "{"
JSONStage(s) ==
    /\ Len(TrimSpace(s)) >= 1
    /\ Char(TrimSpace(s), 1) \in {"[", "{"}
    /\ Unmarshal(s).ok

\* C24 amended: JSON is tried only on a string that starts, after leading white
\* space, with "[" or "{"; when that is not the case or the parse fails, the
\* value is the boolean for exactly "true" or "false", else the integer when
\* the string is one, else the float when it is one, else the string unchanged.
\* Every merged parameter is in litellm_params until the drop list is applied,
\* but for additional_drop_params with a value parsed as JSON.
C24_CoercionPipelineGuarded ==
    \A key \in Merged :
        LET s == req.additional[key]
        IN /\ (~Built /\ ~(key = ReservedKey /\ JSONStage(s)))
              => key \in DOMAIN req.litellmParams
           /\ key \in DOMAIN req.litellmParams
              => LET v == req.litellmParams[key]
                 IN /\ JSONStage(s) => v = Unmarshal(s).val
                    /\ (~JSONStage(s) /\ s = "true") => v = BoolValue(TRUE)
                    /\ (~JSONStage(s) /\ s = "false") => v = BoolValue(FALSE)
                    /\ (~JSONStage(s) /\ s \notin {"true", "false"} /\ Atoi(s).ok)
                       => v = IntValue(Atoi(s).val)
                    /\ (~JSONStage(s) /\ s \notin {"true", "false"} /\ ~Atoi(s).ok
                        /\ ParseFloat(s).ok)
                       => v = ParseFloat(s).val
                    /\ (~JSONStage(s) /\ s \notin {"true", "false"} /\ ~Atoi(s).ok
                        /\ ~ParseFloat(s).ok)
                       => v = StringValue(s)

\* C24 witness: litellm_params is final and holds temperature with the string
\* "null", JSON text that was not tried as JSON, next to a drop list that does
\* not name it.
C24_Witness ==
    /\ Built
    /\ "temperature" \in DOMAIN req.additional
    /\ req.additional["temperature"] = "null"
    /\ Unmarshal("null").ok
    /\ "temperature" \in DOMAIN req.litellmParams
    /\ req.litellmParams["temperature"] = StringValue("null")
    /\ ReservedKey \in DOMAIN req.additional

AttemptLogs == SelectSeq(logs, LAMBDA l : l.what = "attempt")

RetryLogs == SelectSeq(logs, LAMBDA l : l.what = "retrying")

\* C25: in a call of either reconciler, the k-th read has been announced by a
\* log line that carries k and the budget; every decision to sleep and retry has
\* its log line; and when the call has returned, the last log line reports the
\* outcome: the success, the fatal error, or the failure after the last attempt.
C25_Observability ==
    Reconciling
    => /\ Len(AttemptLogs) = Len(Reads)
       /\ \A k \in DOMAIN AttemptLogs :
              AttemptLogs[k].n = k /\ AttemptLogs[k].total = maxRetries
       /\ Len(RetryLogs) = Len(Backoffs) + (IF pc = "sleep" THEN 1 ELSE 0)
       /\ Returned
          => /\ Len(logs) >= 1
             /\ logs[Len(logs)].what \in {"success", "fatal", "failed"}
             /\ (Len(Reads) >= 1 /\ FatalRead(Reads[Len(Reads)]))
                => logs[Len(logs)].what = "fatal"
             /\ (Len(Reads) >= 1 /\ ret.nil) => logs[Len(logs)].what = "success"
             /\ (~ret.nil /\ Len(Reads) >= 1 /\ ~FatalRead(Reads[Len(Reads)]))
                => logs[Len(logs)].what = "failed"

\* retryCredentialRead was entered while d held no identifier
EnteredEmpty == Called("retryCredentialRead") /\ origID = ""

\* the reads of a call entered with no identifier: none leaves an identifier, so
\* each one that returns nil is turned into "credential_not_found"
EmptyReads ==
    \A k \in DOMAIN Reads :
        /\ Reads[k].idAfter = ""
        /\ Reads[k].err.nil => AttemptError(Reads[k]) = Errorf("credential_not_found")

\* C26: retryCredentialRead entered with an empty identifier and a budget N >= 1
\* never returns nil: it returns a fatal read error, or it makes N attempts and
\* returns the error whose message is "credential_not_found"; the identifier is
\* empty at return.
C26_EmptyIdentifier ==
    (EnteredEmpty /\ maxRetries >= 1)
    => /\ id = ""
       /\ EmptyReads
       /\ Returned
          => /\ ~ret.nil
             /\ Len(Reads) >= 1
             /\ \/ /\ FatalRead(Reads[Len(Reads)])
                   /\ ret = Reads[Len(Reads)].err
                \/ /\ Len(Reads) = maxRetries
                   /\ ret.msg = "credential_not_found"

\* C26 amended: as C26, but the error returned after N attempts is the last
\* attempt's: "credential_not_found" itself when the last read returned nil, else
\* the last read's own error, whose message contains "credential_not_found".
C26_EmptyIdentifierLastError ==
    (EnteredEmpty /\ maxRetries >= 1)
    => /\ id = ""
       /\ EmptyReads
       /\ Returned
          => /\ ~ret.nil
             /\ Len(Reads) >= 1
             /\ Len(Reads) <= maxRetries
             /\ ret = AttemptError(Reads[Len(Reads)])
             /\ \/ FatalRead(Reads[Len(Reads)])
                \/ /\ Len(Reads) = maxRetries
                   /\ Contains(ret.msg, "credential_not_found")
                   /\ Reads[Len(Reads)].err.nil => ret.msg = "credential_not_found"

\* C26 witness: a call entered with no identifier and budget 3 has returned
\* "credential_not_found" after three reads that all returned nil.
C26_Witness ==
    /\ EnteredEmpty
    /\ Returned
    /\ maxRetries = 3
    /\ Len(Reads) = 3
    /\ \A k \in DOMAIN Reads : Reads[k].err.nil
    /\ ret = Errorf("credential_not_found")
    /\ id = ""

\* C27: whatever the budget, 0 and negative values included, a reconciler that
\* has returned nil has made a read that returned without error.
C27_NilNeedsARead ==
    (Reconciling /\ Returned /\ ret.nil)
    => \E k \in DOMAIN Reads : Reads[k].err.nil

====
